---- MODULE Spec2Model ----
(***************************************************************************)
(* State-machine model of screenshot-beautifier/src/App.tsx: the App       *)
(* component's useState atoms, its event handlers and the asynchronous     *)
(* continuations they start (FileReader.onload, the toPng promise).        *)
(*                                                                         *)
(* Conventions                                                             *)
(*  - JavaScript strings that the code inspects character by character     *)
(*    (File.type, File.name, imageName) are sequences of one-character     *)
(*    strings; opaque strings (colours, data URLs) are TLA+ strings.       *)
(*  - JavaScript numbers that take fractional values (the opacities and    *)
(*    the intermediate shadow geometry) are exact fixed-point numbers in   *)
(*    units of 1/Unit; every product and quotient the code forms on the    *)
(*    slider range is exact in that unit.                                  *)
(*  - Each handler runs to completion (single-threaded event loop, React   *)
(*    batches the setState calls of one callback), so one handler or one   *)
(*    asynchronous continuation is one action.                             *)
(*  - isDragging and the drag-over/drag-leave handlers only drive a CSS    *)
(*    class and are left out; of the download's file name only the leading *)
(*    segment derived from imageName is kept (the scale suffix and the     *)
(*    timestamp are not).                                                  *)
(***************************************************************************)
EXTENDS Integers, Sequences, FiniteSets, Bags

VARIABLES
    imageDataUrl,    \* useState<string | null>(null); "null" stands for null
    imageName,       \* useState('Screenshot'), a character sequence
    settings,        \* useState<Settings>(DEFAULT_SETTINGS)
    isExporting,     \* useState(false)
    exportScale,     \* useState<1 | 2 | 3>(2)
    pendingReads,    \* FileReaders started by readFile whose onload has not run, in start order
    pendingExports,  \* bag of toPng promises not yet settled, each with the imageName its handleExport call closed over
    memo,            \* the useMemo values of the current render
    last             \* observation of the latest step: handler name, alert shown, download triggered (and, for onload, which reader)

vars == <<imageDataUrl, imageName, settings, isExporting, exportScale,
          pendingReads, pendingExports, memo, last>>

----------------------------------------------------------------------------
(* Bounds *)

MaxPendingReads == 2
MaxPendingExports == 2
MaxChangedFields == 3
MaxNameLen == 3

----------------------------------------------------------------------------
(* Character data *)

LowerLetters == <<"a","b","c","d","e","f","g","h","i","j","k","l","m",
                  "n","o","p","q","r","s","t","u","v","w","x","y","z">>
UpperLetters == <<"A","B","C","D","E","F","G","H","I","J","K","L","M",
                  "N","O","P","Q","R","S","T","U","V","W","X","Y","Z">>
Digits == <<"0","1","2","3","4","5","6","7","8","9">>

Range(s) == { s[i] : i \in 1..Len(s) }

ImagePrefix == <<"i","m","a","g","e","/">>
ScreenshotName == <<"S","c","r","e","e","n","s","h","o","t">>
screenshotWord == <<"s","c","r","e","e","n","s","h","o","t">>

\* String.prototype.startsWith
StartsWith(s, prefix) ==
    /\ Len(s) >= Len(prefix)
    /\ SubSeq(s, 1, Len(prefix)) = prefix

----------------------------------------------------------------------------
(* Settings *)

SettingKeys == {"borderRadius", "padding", "dropShadow", "backgroundType",
                "gradientFrom", "gradientTo", "gradientAngle", "backgroundColor",
                "showWindowChrome", "windowAccent", "noise", "vignette"}

DEFAULT_SETTINGS ==
    [borderRadius |-> 36, padding |-> 72, dropShadow |-> 65,
     backgroundType |-> "gradient",
     gradientFrom |-> "#60a5fa", gradientTo |-> "#a855f7", gradientAngle |-> 135,
     backgroundColor |-> "#0f172a",
     showWindowChrome |-> TRUE, windowAccent |-> "#22d3ee",
     noise |-> 12, vignette |-> 40]

gradientPresets ==
    << [id |-> "aurora",   from |-> "#60a5fa", to |-> "#a855f7", angle |-> 130],
       [id |-> "sunset",   from |-> "#fb7185", to |-> "#f97316", angle |-> 140],
       [id |-> "mint",     from |-> "#22d3ee", to |-> "#34d399", angle |-> 125],
       [id |-> "midnight", from |-> "#1d4ed8", to |-> "#0f172a", angle |-> 150] >>

solidPresets ==
    << [id |-> "obsidian", color |-> "#0f172a"],
       [id |-> "slate",    color |-> "#1f2937"],
       [id |-> "ocean",    color |-> "#082f49"],
       [id |-> "ice",      color |-> "#e0f2fe"] >>

exportScaleOptions == {1, 2, 3}

\* Variant: the updater spreads the defaults instead of the previous record
updateSettingUpdater_fromDefaults(previous, key, value) ==
    [k \in DOMAIN previous |-> IF k = key THEN value ELSE DEFAULT_SETTINGS[k]]

\* The updater passed to setSettings by updateSetting: { ...previous, [key]: value }
updateSettingUpdater(previous, key, value) ==
    [k \in DOMAIN previous |-> IF k = key THEN value ELSE previous[k]]

\* Variant: the preset's angle is not applied
gradientPresetUpdater_noAngle(previous, preset) ==
    [k \in DOMAIN previous |->
        CASE k = "backgroundType" -> "gradient"
          [] k = "gradientFrom"   -> preset.from
          [] k = "gradientTo"     -> preset.to
          [] OTHER                -> previous[k]]

\* The updater of a gradient PresetSwatch's onClick
gradientPresetUpdater(previous, preset) ==
    [k \in DOMAIN previous |->
        CASE k = "backgroundType" -> "gradient"
          [] k = "gradientFrom"   -> preset.from
          [] k = "gradientTo"     -> preset.to
          [] k = "gradientAngle"  -> preset.angle
          [] OTHER                -> previous[k]]

\* The updater of a solid PresetSwatch's onClick
solidPresetUpdater(previous, preset) ==
    [k \in DOMAIN previous |->
        CASE k = "backgroundType"  -> "solid"
          [] k = "backgroundColor" -> preset.color
          [] OTHER                 -> previous[k]]

\* Variant: reset keeps the background mode the user is in
resetSettingsValue_keepsMode ==
    [k \in DOMAIN DEFAULT_SETTINGS |->
        IF k = "backgroundType" THEN settings.backgroundType ELSE DEFAULT_SETTINGS[k]]

\* The value resetSettings passes to setSettings: { ...DEFAULT_SETTINGS }
resetSettingsValue == [k \in DOMAIN DEFAULT_SETTINGS |-> DEFAULT_SETTINGS[k]]

\* The control that edits a key is rendered only in the matching background mode
ControlRendered(s, key) ==
    CASE key \in {"gradientFrom", "gradientTo", "gradientAngle"} -> s.backgroundType = "gradient"
      [] key = "backgroundColor" -> s.backgroundType = "solid"
      [] OTHER -> TRUE

----------------------------------------------------------------------------
(* Derived style values (useMemo) in fixed point, one unit = 1/Unit *)

Unit == 100 * 100

Fixed(whole) == whole * Unit                  \* an integer literal
FixedMul(a, b) == (a * b) \div Unit           \* a * b
FixedDiv(a, whole) == a \div whole            \* a / whole, whole an integer literal
Min(a, b) == IF a <= b THEN a ELSE b          \* Math.min
MathRound(a) == (a + Unit \div 2) \div Unit   \* Math.round: nearest integer, ties towards +Infinity

DecimalTenths(n) == n * (Unit \div 10)        \* the literal 0.n
DecimalHundredths(n) == n * (Unit \div 100)   \* the literal 0.0n / 0.nn

NoShadow == [none |-> TRUE]

\* Variant: the opacity is not clamped
dropShadowCss_noClamp(dropShadow) ==
    IF dropShadow <= 1
    THEN NoShadow
    ELSE LET intensity == FixedDiv(Fixed(dropShadow), 100)
             blur      == Fixed(40) + intensity * 140
             spread    == Fixed(-40) - intensity * 25
             offsetY   == Fixed(24) + intensity * 48
             opacity   == DecimalHundredths(25) + FixedMul(intensity, DecimalTenths(4))
         IN  [none |-> FALSE,
              offsetY |-> MathRound(offsetY),
              blur |-> MathRound(blur),
              spread |-> MathRound(spread),
              opacity |-> opacity]

dropShadowCss(dropShadow) ==
    IF dropShadow <= 1
    THEN NoShadow
    ELSE LET intensity == FixedDiv(Fixed(dropShadow), 100)
             blur      == Fixed(40) + intensity * 140
             spread    == Fixed(-40) - intensity * 25
             offsetY   == Fixed(24) + intensity * 48
             opacity   == Min(DecimalHundredths(25) + FixedMul(intensity, DecimalTenths(4)),
                              DecimalTenths(6))
         IN  [none |-> FALSE,
              offsetY |-> MathRound(offsetY),
              blur |-> MathRound(blur),
              spread |-> MathRound(spread),
              opacity |-> opacity]

\* Variant: the opacity is not capped
noiseOpacity_uncapped(noise) ==
    FixedMul(FixedDiv(Fixed(noise), 100), DecimalHundredths(35))

noiseOpacity(noise) ==
    Min(FixedMul(FixedDiv(Fixed(noise), 100), DecimalHundredths(35)), DecimalTenths(3))

\* Variant: the opacity is not capped
vignetteOpacity_uncapped(vignette) ==
    FixedMul(FixedDiv(Fixed(vignette), 100), DecimalTenths(9))

vignetteOpacity(vignette) ==
    Min(FixedMul(FixedDiv(Fixed(vignette), 100), DecimalTenths(9)), DecimalHundredths(85))

\* The memoised values of the render that follows a state change
Render(s) ==
    [dropShadowCss   |-> dropShadowCss(s.dropShadow),
     noiseOpacity    |-> noiseOpacity(s.noise),
     vignetteOpacity |-> vignetteOpacity(s.vignette)]

----------------------------------------------------------------------------
(* Names *)

\* file.name.replace(/\.[^/.]+$/, ''): the leftmost "." that is followed, up to
\* the end of the string, by one or more characters other than "/" and "."
ExtensionStarts(name) ==
    { i \in 1..Len(name) :
        /\ name[i] = "."
        /\ i < Len(name)
        /\ \A j \in (i+1)..Len(name) : name[j] \notin {"/", "."} }

MinOf(S) == CHOOSE x \in S : \A y \in S : x <= y

StripExtension(name) ==
    IF ExtensionStarts(name) = {}
    THEN name
    ELSE SubSeq(name, 1, MinOf(ExtensionStarts(name)) - 1)

\* Variant: no fallback for an empty stripped name
friendlyName_noFallback(name) == StripExtension(name)

\* friendlyName || 'Screenshot'
friendlyName(name) ==
    IF StripExtension(name) = << >> THEN ScreenshotName ELSE StripExtension(name)

\* String.prototype.toLowerCase on the modelled alphabet
LowerChar(c) ==
    IF \E i \in 1..Len(UpperLetters) : UpperLetters[i] = c
    THEN LowerLetters[CHOOSE i \in 1..Len(UpperLetters) : UpperLetters[i] = c]
    ELSE c

toLowerCase(s) == [i \in 1..Len(s) |-> LowerChar(s[i])]

IsAlnum(c) == c \in Range(LowerLetters) \cup Range(Digits)

\* .replace(/[^a-z0-9]+/g, '-'): every maximal run of other characters becomes one "-"
RECURSIVE ReplaceRuns(_, _)
ReplaceRuns(s, inRun) ==
    IF s = << >> THEN << >>
    ELSE IF IsAlnum(Head(s)) THEN <<Head(s)>> \o ReplaceRuns(Tail(s), FALSE)
    ELSE IF inRun THEN ReplaceRuns(Tail(s), TRUE)
    ELSE <<"-">> \o ReplaceRuns(Tail(s), TRUE)

\* Variant: only the leading "-" is removed
TrimHyphens_leadingOnly(s) ==
    IF Len(s) > 0 /\ s[1] = "-" THEN Tail(s) ELSE s

\* .replace(/(^-|-$)/g, ''): one "-" at the start and one at the end are removed
TrimHyphens(s) ==
    LET a == IF Len(s) > 0 /\ s[1] = "-" THEN Tail(s) ELSE s
    IN  IF Len(a) > 0 /\ a[Len(a)] = "-" THEN SubSeq(a, 1, Len(a) - 1) ELSE a

safeName(name) == TrimHyphens(ReplaceRuns(toLowerCase(name), FALSE))

\* The leading segment of link.download: safeName || 'screenshot'
downloadName(name) ==
    IF safeName(name) = << >> THEN screenshotWord ELSE safeName(name)

----------------------------------------------------------------------------
(* Files handed to the input surface, and values typed into the controls *)

PngFile  == [type |-> <<"i","m","a","g","e","/","p","n","g">>,
             name |-> <<"a",".","p","n","g">>, data |-> "data:image/png;A"]
JpegFile == [type |-> <<"i","m","a","g","e","/","j","p","e","g">>,
             name |-> <<"B","-","2",".","j","p","g">>, data |-> "data:image/jpeg;B"]
TextFile == [type |-> <<"t","e","x","t","/","p","l","a","i","n">>,
             name |-> <<"n",".","t","x","t">>, data |-> "data:text/plain;N"]
UntypedFile == [type |-> << >>, name |-> <<"r","a","w">>, data |-> "data:;R"]

ImageFiles == {PngFile, JpegFile}
OtherFiles == {TextFile, UntypedFile}
Files == ImageFiles \cup OtherFiles

\* Values a control can deliver for a key: both ends of the slider range and
\* the default, both toggle positions, both modes, the default and one other colour
KeyValues(key) ==
    CASE key = "borderRadius"     -> {0, 36, 72}
      [] key = "padding"          -> {36, 72, 140}
      [] key = "dropShadow"       -> {0, 65, 100}
      [] key = "backgroundType"   -> {"gradient", "solid"}
      [] key = "gradientFrom"     -> {"#60a5fa", "#ffffff"}
      [] key = "gradientTo"       -> {"#a855f7", "#000000"}
      [] key = "gradientAngle"    -> {0, 135, 360}
      [] key = "backgroundColor"  -> {"#0f172a", "#ffffff"}
      [] key = "showWindowChrome" -> BOOLEAN
      [] key = "windowAccent"     -> {"#22d3ee", "#ffffff"}
      [] key = "noise"            -> {0, 12, 100}
      [] key = "vignette"         -> {0, 40, 100}

\* Number of fields in which a Settings record differs from the defaults
Changed(s) == Cardinality({ k \in SettingKeys : s[k] # DEFAULT_SETTINGS[k] })

----------------------------------------------------------------------------
(* State machine *)

NoAlert == "none"
UploadFirstAlert == "Upload a screenshot before exporting."
ExportFailedAlert == "Export failed. Please try again or lower the export size."

Silent(op) == [op |-> op, alert |-> NoAlert, download |-> << >>]

RemoveAt(seq, i) == SubSeq(seq, 1, i - 1) \o SubSeq(seq, i + 1, Len(seq))

Init ==
    /\ imageDataUrl = "null"
    /\ imageName = ScreenshotName
    /\ settings = DEFAULT_SETTINGS
    /\ isExporting = FALSE
    /\ exportScale = 2
    /\ pendingReads = << >>
    /\ pendingExports = EmptyBag
    /\ memo = Render(DEFAULT_SETTINGS)
    /\ last = Silent("mount")

\* setSettings(next) followed by the re-render that recomputes the memos
setSettings(next) ==
    /\ settings' = next
    /\ memo' = Render(next)

updateSetting(key, value) ==
    /\ ControlRendered(settings, key)
    /\ setSettings(updateSettingUpdater(settings, key, value))
    /\ last' = Silent("updateSetting")
    /\ UNCHANGED <<imageDataUrl, imageName, isExporting, exportScale, pendingReads, pendingExports>>

selectGradientPreset(i) ==
    /\ settings.backgroundType = "gradient"
    /\ setSettings(gradientPresetUpdater(settings, gradientPresets[i]))
    /\ last' = Silent("selectGradientPreset")
    /\ UNCHANGED <<imageDataUrl, imageName, isExporting, exportScale, pendingReads, pendingExports>>

selectSolidPreset(i) ==
    /\ settings.backgroundType # "gradient"
    /\ setSettings(solidPresetUpdater(settings, solidPresets[i]))
    /\ last' = Silent("selectSolidPreset")
    /\ UNCHANGED <<imageDataUrl, imageName, isExporting, exportScale, pendingReads, pendingExports>>

\* Variant: reset also clears the loaded image
resetSettings_alsoClears ==
    /\ setSettings(resetSettingsValue)
    /\ imageDataUrl' = "null"
    /\ imageName' = ScreenshotName
    /\ last' = Silent("resetSettings")
    /\ UNCHANGED <<isExporting, exportScale, pendingReads, pendingExports>>

resetSettings ==
    /\ setSettings(resetSettingsValue)
    /\ last' = Silent("resetSettings")
    /\ UNCHANGED <<imageDataUrl, imageName, isExporting, exportScale, pendingReads, pendingExports>>

setExportScale(option) ==
    /\ exportScale' = option
    /\ last' = Silent("setExportScale")
    /\ UNCHANGED <<imageDataUrl, imageName, settings, memo, isExporting, pendingReads, pendingExports>>

\* Variant: any file with a declared media type is read
readFileAccepts_anyTyped(file) == Len(file.type) > 0

\* readFile: a FileReader is started only for a media type that starts with "image/"
readFileAccepts(file) == StartsWith(file.type, ImagePrefix)

readFile(file) ==
    IF ~readFileAccepts(file)
    THEN UNCHANGED pendingReads
    ELSE /\ Len(pendingReads) < MaxPendingReads
         /\ pendingReads' = Append(pendingReads, file)

handleFileInputChange(file) ==
    /\ readFile(file)
    /\ last' = Silent("handleFileInputChange")
    /\ UNCHANGED <<imageDataUrl, imageName, settings, memo, isExporting, exportScale, pendingExports>>

handleDrop(file) ==
    /\ readFile(file)
    /\ last' = Silent("handleDrop")
    /\ UNCHANGED <<imageDataUrl, imageName, settings, memo, isExporting, exportScale, pendingExports>>

\* Variant: onload publishes the data URL only; the display name is left as it was
readerOnload_urlOnly(i) ==
    /\ i \in 1..Len(pendingReads)
    /\ imageDataUrl' = pendingReads[i].data
    /\ pendingReads' = RemoveAt(pendingReads, i)
    /\ last' = [op |-> "readerOnload", alert |-> NoAlert, download |-> << >>, position |-> i]
    /\ UNCHANGED <<imageName, settings, memo, isExporting, exportScale, pendingExports>>

\* reader.onload of the i-th reader in flight; readers complete in any order.
\* The observation keeps i, the reader's position in start order among those
\* in flight: readers before it were started earlier, readers after it later.
readerOnload(i) ==
    /\ i \in 1..Len(pendingReads)
    /\ imageDataUrl' = pendingReads[i].data
    /\ imageName' = friendlyName(pendingReads[i].name)
    /\ pendingReads' = RemoveAt(pendingReads, i)
    /\ last' = [op |-> "readerOnload", alert |-> NoAlert, download |-> << >>, position |-> i]
    /\ UNCHANGED <<settings, memo, isExporting, exportScale, pendingExports>>

\* the read fails; readFile installs no error handler
readerError(i) ==
    /\ i \in 1..Len(pendingReads)
    /\ pendingReads' = RemoveAt(pendingReads, i)
    /\ last' = Silent("readerError")
    /\ UNCHANGED <<imageDataUrl, imageName, settings, memo, isExporting, exportScale, pendingExports>>

\* the Clear button is disabled while no image is loaded
handleClearImage ==
    /\ imageDataUrl # "null"
    /\ imageDataUrl' = "null"
    /\ imageName' = ScreenshotName
    /\ last' = Silent("handleClearImage")
    /\ UNCHANGED <<settings, memo, isExporting, exportScale, pendingReads, pendingExports>>

\* Variant: the early return on a missing image is absent
handleExport_noImageGuard ==
    /\ BagCardinality(pendingExports) < MaxPendingExports
    /\ isExporting' = TRUE
    /\ pendingExports' = pendingExports (+)
                             SetToBag({[imageName |-> imageName]})
    /\ last' = Silent("handleExport")
    /\ UNCHANGED <<imageDataUrl, imageName, settings, memo, exportScale, pendingReads>>

\* handleExport up to its await: previewRef.current is the always-mounted
\* preview element, so the guard reduces to !imageDataUrl
handleExport ==
    IF imageDataUrl = "null"
    THEN /\ last' = [op |-> "handleExport", alert |-> UploadFirstAlert, download |-> << >>]
         /\ UNCHANGED <<imageDataUrl, imageName, settings, memo, isExporting, exportScale,
                        pendingReads, pendingExports>>
    ELSE /\ BagCardinality(pendingExports) < MaxPendingExports
         /\ isExporting' = TRUE
         /\ pendingExports' = pendingExports (+)
                                  SetToBag({[imageName |-> imageName]})
         /\ last' = Silent("handleExport")
         /\ UNCHANGED <<imageDataUrl, imageName, settings, memo, exportScale, pendingReads>>

\* the Export PNG button's disabled={!imageDataUrl || isExporting}
ExportButtonDisabled == imageDataUrl = "null" \/ isExporting

\* a click on the Export PNG button
exportButtonClick ==
    /\ ~ExportButtonDisabled
    /\ handleExport

\* the toPng promise of call c resolves: the rest of the try block, then finally
toPngResolve(c) ==
    /\ BagIn(c, pendingExports)
    /\ last' = [op |-> "toPngResolve", alert |-> NoAlert,
                download |-> <<downloadName(c.imageName)>>]
    /\ isExporting' = FALSE
    /\ pendingExports' = pendingExports (-) SetToBag({c})
    /\ UNCHANGED <<imageDataUrl, imageName, settings, memo, exportScale, pendingReads>>

\* Variant: isExporting is cleared at the end of the try block instead of in finally
toPngReject_noFinally(c) ==
    /\ BagIn(c, pendingExports)
    /\ last' = [op |-> "toPngReject", alert |-> ExportFailedAlert, download |-> << >>]
    /\ pendingExports' = pendingExports (-) SetToBag({c})
    /\ UNCHANGED <<imageDataUrl, imageName, settings, memo, isExporting, exportScale, pendingReads>>

\* the toPng promise of call c rejects: catch, then finally
toPngReject(c) ==
    /\ BagIn(c, pendingExports)
    /\ last' = [op |-> "toPngReject", alert |-> ExportFailedAlert, download |-> << >>]
    /\ isExporting' = FALSE
    /\ pendingExports' = pendingExports (-) SetToBag({c})
    /\ UNCHANGED <<imageDataUrl, imageName, settings, memo, exportScale, pendingReads>>

\* const showPlaceholder = !imageDataUrl: the preview renders the placeholder
\* (empty) or the framed image (loaded)
showPlaceholder == imageDataUrl = "null"

----------------------------------------------------------------------------
(* Specifications *)

\* The whole application; the styling controls deliver the inputs of SessionEdits
\* and the presets of SessionPresets
SessionEdits == {<<"backgroundType", "solid">>, <<"backgroundType", "gradient">>}
SessionPresets == {2}

Next ==
    \/ \E e \in SessionEdits : updateSetting(e[1], e[2])
    \/ \E i \in SessionPresets : selectGradientPreset(i)
    \/ \E i \in SessionPresets : selectSolidPreset(i)
    \/ resetSettings
    \/ \E option \in exportScaleOptions : setExportScale(option)
    \/ \E file \in Files : handleFileInputChange(file)
    \/ \E file \in Files : handleDrop(file)
    \/ \E i \in 1..MaxPendingReads : readerOnload(i)
    \/ \E i \in 1..MaxPendingReads : readerError(i)
    \/ handleClearImage
    \/ handleExport
    \/ exportButtonClick
    \/ \E c \in BagToSet(pendingExports) : toPngResolve(c)
    \/ \E c \in BagToSet(pendingExports) : toPngReject(c)

Spec == Init /\ [][Next]_vars

\* The styling panel on its own, explored up to MaxChangedFields fields away
\* from the defaults
WithinReach(next) == Changed(next) <= MaxChangedFields

StylingNext ==
    \/ \E key \in SettingKeys : \E value \in KeyValues(key) :
          /\ WithinReach(updateSettingUpdater(settings, key, value))
          /\ updateSetting(key, value)
    \/ \E i \in 1..Len(gradientPresets) :
          /\ WithinReach(gradientPresetUpdater(settings, gradientPresets[i]))
          /\ selectGradientPreset(i)
    \/ \E i \in 1..Len(solidPresets) :
          /\ WithinReach(solidPresetUpdater(settings, solidPresets[i]))
          /\ selectSolidPreset(i)
    \/ resetSettings

SettingsSpec == Init /\ [][StylingNext]_vars

\* Files of every short name, ingested, exported and cleared one at a time
NameAlphabet == {"A", "b", "7", "-", "!", ".", "/"}

BoundedSeqs(S, n) == UNION { [1..k -> S] : k \in 0..n }

HashOneFileName == <<"M","y"," ","S","c","r","e","e","n","s","h","o","t"," ","#","1","!",".","p","n","g">>

NameFiles ==
    { [type |-> PngFile.type, name |-> name, data |-> "data:image/png;named"] :
        name \in BoundedSeqs(NameAlphabet, MaxNameLen) \cup {HashOneFileName} }

SessionIdle ==
    /\ imageDataUrl = "null"
    /\ pendingReads = << >>
    /\ pendingExports = EmptyBag

NameNext ==
    \/ \E file \in NameFiles : SessionIdle /\ handleFileInputChange(file)
    \/ readerOnload(1)
    \/ exportButtonClick
    \/ \E c \in BagToSet(pendingExports) : toPngResolve(c)
    \/ pendingExports = EmptyBag /\ handleClearImage

NameSpec == Init /\ [][NameNext]_vars

\* Ingestion on its own, with a file of an image type the accept list lacks
GifFile == [type |-> <<"i","m","a","g","e","/","g","i","f">>,
            name |-> <<"c",".","g","i","f">>, data |-> "data:image/gif;C"]

\* accept="image/png,image/jpeg,image/webp,image/svg+xml" of the file input
acceptedTypes ==
    { <<"i","m","a","g","e","/","p","n","g">>,
      <<"i","m","a","g","e","/","j","p","e","g">>,
      <<"i","m","a","g","e","/","w","e","b","p">>,
      <<"i","m","a","g","e","/","s","v","g","+","x","m","l">> }

IngestFiles == {PngFile, JpegFile, GifFile, TextFile}

IngestNext ==
    \/ \E file \in IngestFiles : handleFileInputChange(file)
    \/ \E file \in IngestFiles : handleDrop(file)
    \/ \E i \in 1..MaxPendingReads : readerOnload(i)
    \/ \E i \in 1..MaxPendingReads : readerError(i)
    \/ handleClearImage

IngestSpec == Init /\ [][IngestNext]_vars

\* One slider moved over its whole range
ShadowSliderMax == 100
NoiseSliderMax == 100
VignetteSliderMax == 100

ShadowNext == \E value \in 0..ShadowSliderMax : updateSetting("dropShadow", value)
ShadowSpec == Init /\ [][ShadowNext]_vars

NoiseNext == \E value \in 0..NoiseSliderMax : updateSetting("noise", value)
NoiseSpec == Init /\ [][NoiseNext]_vars

VignetteNext == \E value \in 0..VignetteSliderMax : updateSetting("vignette", value)
VignetteSpec == Init /\ [][VignetteNext]_vars

----------------------------------------------------------------------------
(* Export *)

PendingSnapshots == BagCardinality(pendingExports)

\* C1: at most one snapshot/encode (toPng call) is pending at any time, for any
\* sequence of handleExport invocations.
C1_SingleFlight == PendingSnapshots <= 1

\* C2: handleExport invoked while no image is loaded starts no snapshot, triggers
\* no download, shows a message, and leaves isExporting, Settings and the loaded
\* image unchanged, whatever the export scale.
C2_ExportWithoutImage ==
    [][(imageDataUrl = "null" /\ last'.op = "handleExport") =>
         /\ pendingExports' = pendingExports
         /\ last'.download = << >>
         /\ last'.alert = UploadFirstAlert
         /\ isExporting' = isExporting
         /\ settings' = settings
         /\ exportScale' = exportScale
         /\ imageDataUrl' = "null"
         /\ imageName' = imageName]_vars

C2_Witness ==
    /\ last.op = "handleExport"
    /\ last.alert = UploadFirstAlert
    /\ imageDataUrl = "null"
    /\ exportScale = 3
    /\ settings # DEFAULT_SETTINGS
    /\ isExporting

\* C3: when the snapshot/encode step rejects, no download is triggered, the user
\* is notified and isExporting is false afterwards, so the Export button is
\* enabled again; every settled toPng call, resolved or rejected, leaves
\* isExporting false and is no longer pending.
C3_SettledExportResets ==
    [][/\ last'.op = "toPngReject" =>
            /\ last'.download = << >>
            /\ last'.alert = ExportFailedAlert
            /\ (imageDataUrl # "null" => ~ExportButtonDisabled)'
       /\ last'.op \in {"toPngResolve", "toPngReject"} =>
            /\ isExporting' = FALSE
            /\ BagCardinality(pendingExports') = BagCardinality(pendingExports) - 1]_vars

C3_Witness ==
    /\ last.op = "toPngReject"
    /\ last.alert = ExportFailedAlert
    /\ ~isExporting
    /\ imageDataUrl # "null"
    /\ PendingSnapshots = 0

----------------------------------------------------------------------------
(* Ingestion *)

\* C4: readFile on a file whose media type does not start with "image/" starts
\* no read and leaves Settings, imageDataUrl and imageName unchanged, from the
\* file dialog and from drag-and-drop alike.
C4_NonImageIgnored ==
    [][\A file \in Files :
          (~StartsWith(file.type, ImagePrefix)
             /\ (handleFileInputChange(file) \/ handleDrop(file))) =>
          /\ pendingReads' = pendingReads
          /\ settings' = settings
          /\ imageDataUrl' = imageDataUrl
          /\ imageName' = imageName]_vars

C4_Witness ==
    /\ last.op = "handleDrop"
    /\ pendingReads = << >>
    /\ imageDataUrl = PngFile.data
    /\ settings # DEFAULT_SETTINGS

\* The display name each image file is published under
PublishedPairs ==
    { <<"null", ScreenshotName>>,
      <<PngFile.data, <<"a">>>>,
      <<JpegFile.data, <<"B","-","2">>>> }

\* C5: starting a read leaves the loaded image and display name as they were and
\* only a completed read or the clear action replaces them, both together: the
\* data URL and the display name always belong to the same file, and the name
\* an export captured is the name of a file that was loaded in full.
C5_AtomicPublication ==
    /\ [](<<imageDataUrl, imageName>> \in PublishedPairs)
    /\ [](\A c \in BagToSet(pendingExports) :
            \E pair \in PublishedPairs : pair[1] # "null" /\ c.imageName = pair[2])
    /\ [][/\ last'.op \in {"handleFileInputChange", "handleDrop"} =>
               (imageDataUrl' = imageDataUrl /\ imageName' = imageName)
          /\ (imageDataUrl' # imageDataUrl \/ imageName' # imageName) =>
               last'.op \in {"readerOnload", "handleClearImage"}]_vars

C5_Witness ==
    /\ last.op = "readerOnload"
    /\ imageDataUrl = JpegFile.data
    /\ imageName = <<"B","-","2">>
    /\ pendingReads = <<PngFile>>
    /\ \E c \in BagToSet(pendingExports) : c.imageName = <<"a">>

----------------------------------------------------------------------------
(* Settings *)

\* C6: resetSettings yields a Settings record equal field by field to
\* DEFAULT_SETTINGS from every prior state and leaves the loaded image, display
\* name, export scale and isExporting unchanged.
C6_ResetYieldsDefaults ==
    [][last'.op = "resetSettings" =>
         /\ DOMAIN settings' = SettingKeys
         /\ \A key \in SettingKeys : settings'[key] = DEFAULT_SETTINGS[key]
         /\ imageDataUrl' = imageDataUrl
         /\ imageName' = imageName
         /\ exportScale' = exportScale
         /\ isExporting' = isExporting]_vars

C6_Witness ==
    /\ last.op = "resetSettings"
    /\ settings = DEFAULT_SETTINGS
    /\ imageDataUrl = JpegFile.data
    /\ exportScale = 1
    /\ isExporting

\* C7: updateSetting(key, value) gives a record with all twelve fields in which
\* the named field is value and every other field keeps its previous value, the
\* previous value being the result of the updates applied before.
C7_UpdateOneField ==
    [][\A key \in SettingKeys : \A value \in KeyValues(key) :
          updateSetting(key, value) =>
             /\ DOMAIN settings' = SettingKeys
             /\ settings'[key] = value
             /\ \A other \in SettingKeys \ {key} : settings'[other] = settings[other]]_vars

C7_Witness ==
    /\ last.op = "updateSetting"
    /\ settings.padding = 140
    /\ settings.showWindowChrome = FALSE
    /\ settings.noise = 0
    /\ Changed(settings) = 3

\* C8: selecting a gradient preset sets backgroundType = gradient and the
\* preset's from, to and angle in one step; selecting a solid preset sets
\* backgroundType = solid and the preset's colour in one step; every other
\* field keeps its value.
C8_PresetAtomic ==
    [][/\ \A i \in 1..Len(gradientPresets) :
             selectGradientPreset(i) =>
                settings' = [settings EXCEPT !.backgroundType = "gradient",
                                             !.gradientFrom = gradientPresets[i].from,
                                             !.gradientTo = gradientPresets[i].to,
                                             !.gradientAngle = gradientPresets[i].angle]
       /\ \A i \in 1..Len(solidPresets) :
             selectSolidPreset(i) =>
                settings' = [settings EXCEPT !.backgroundType = "solid",
                                             !.backgroundColor = solidPresets[i].color]]_vars

C8_Witness ==
    /\ last.op = "selectGradientPreset"
    /\ settings = [DEFAULT_SETTINGS EXCEPT !.gradientFrom = "#1d4ed8",
                                           !.gradientTo = "#0f172a",
                                           !.gradientAngle = 150]

----------------------------------------------------------------------------
(* Derived style values *)

\* n is an integer nearest to hundredths / 100
NearestTo(n, hundredths) ==
    /\ 2 * (100 * n - hundredths) <= 100
    /\ 2 * (hundredths - 100 * n) <= 100

\* a fixed-point value equals tenThousandths / 10000
Equals(fixed, tenThousandths) == fixed * 10000 = tenThousandths * Unit

\* C9: dropShadow <= 1 gives the "none" sentinel; an integer d in 2..100 gives
\* offsetY = round(24 + 0.48 d), blur = round(40 + 1.4 d),
\* spread = round(-(40 + 0.25 d)), opacity = min(0.25 + 0.004 d, 0.6);
\* d = 100 gives blur 180, spread -65, offsetY 72, opacity 0.6.
C9_ShadowMapping ==
    LET d == settings.dropShadow
        css == memo.dropShadowCss
    IN  /\ d <= 1 => css = NoShadow
        /\ d \in 2..100 =>
             /\ css.none = FALSE
             /\ NearestTo(css.offsetY, 2400 + 48 * d)
             /\ NearestTo(css.blur, 4000 + 140 * d)
             /\ NearestTo(css.spread, -(4000 + 25 * d))
             /\ Equals(css.opacity, IF 2500 + 40 * d <= 6000 THEN 2500 + 40 * d ELSE 6000)
        /\ d = 100 =>
             /\ css.blur = 180
             /\ css.spread = -65
             /\ css.offsetY = 72
             /\ Equals(css.opacity, 6000)

C9_Witness ==
    /\ last.op = "updateSetting"
    /\ settings.dropShadow = 100
    /\ memo.dropShadowCss.blur = 180
    /\ Equals(memo.dropShadowCss.opacity, 6000)

\* C10: for every noise in 0..100 the overlay opacity is noise * 0.0035 capped
\* at 0.3: 0 at noise 0, never above 0.3, 0.3 for noise 86..100, and
\* non-decreasing in noise.
C10_NoiseOpacity ==
    /\ [](LET n == settings.noise
          IN  /\ n \in 0..100
              /\ Equals(memo.noiseOpacity, IF 35 * n <= 3000 THEN 35 * n ELSE 3000)
              /\ n = 0 => memo.noiseOpacity = 0
              /\ memo.noiseOpacity * 10 <= 3 * Unit
              /\ n \in 86..100 => Equals(memo.noiseOpacity, 3000))
    /\ [][settings.noise <= settings'.noise => memo.noiseOpacity <= memo'.noiseOpacity]_vars

C10_Witness ==
    /\ last.op = "updateSetting"
    /\ settings.noise = 86
    /\ Equals(memo.noiseOpacity, 3000)

\* C11: for every vignette in 0..100 the overlay opacity is vignette * 0.009
\* capped at 0.85: 0 at vignette 0, never above 0.85, 0.85 for vignette
\* 95..100, and non-decreasing in vignette.
C11_VignetteOpacity ==
    /\ [](LET v == settings.vignette
          IN  /\ v \in 0..100
              /\ Equals(memo.vignetteOpacity, IF 90 * v <= 8500 THEN 90 * v ELSE 8500)
              /\ v = 0 => memo.vignetteOpacity = 0
              /\ memo.vignetteOpacity * 100 <= 85 * Unit
              /\ v \in 95..100 => Equals(memo.vignetteOpacity, 8500))
    /\ [][settings.vignette <= settings'.vignette =>
            memo.vignetteOpacity <= memo'.vignetteOpacity]_vars

C11_Witness ==
    /\ last.op = "updateSetting"
    /\ settings.vignette = 95
    /\ Equals(memo.vignetteOpacity, 8500)

----------------------------------------------------------------------------
(* Names *)

\* The maximal runs of [a-z0-9] in a lowercased name, in order
RECURSIVE Words(_, _)
Words(s, word) ==
    IF s = << >> THEN (IF word = << >> THEN << >> ELSE <<word>>)
    ELSE IF IsAlnum(Head(s)) THEN Words(Tail(s), Append(word, Head(s)))
    ELSE (IF word = << >> THEN << >> ELSE <<word>>) \o Words(Tail(s), << >>)

RECURSIVE JoinWithHyphen(_)
JoinWithHyphen(words) ==
    IF words = << >> THEN << >>
    ELSE IF Len(words) = 1 THEN words[1]
    ELSE words[1] \o <<"-">> \o JoinWithHyphen(Tail(words))

WellFormedSegment(seg) ==
    /\ seg # << >>
    /\ \A i \in 1..Len(seg) : seg[i] = "-" \/ IsAlnum(seg[i])
    /\ \A i \in 1..(Len(seg) - 1) : ~(seg[i] = "-" /\ seg[i + 1] = "-")
    /\ seg[1] # "-"
    /\ seg[Len(seg)] # "-"

HashOneName == <<"M","y"," ","S","c","r","e","e","n","s","h","o","t"," ","#","1","!">>
HashOneSegment == <<"m","y","-","s","c","r","e","e","n","s","h","o","t","-","1">>

\* C12: the name segment of the download is the lowercased display name with
\* every maximal run of characters outside [a-z0-9] replaced by one hyphen and
\* the hyphens at both ends removed: only [a-z0-9-], no two adjacent hyphens,
\* no hyphen at either end; "screenshot" when nothing is left;
\* "My Screenshot #1!" gives "my-screenshot-1".
C12_SanitizedSegment ==
    [][last'.op = "toPngResolve" =>
         \E c \in BagToSet(pendingExports) :
            LET words == Words(toLowerCase(c.imageName), << >>)
                seg == last'.download[1]
            IN  /\ pendingExports' = pendingExports (-) SetToBag({c})
                /\ WellFormedSegment(seg)
                /\ words # << >> => seg = JoinWithHyphen(words)
                /\ words = << >> => seg = screenshotWord
                /\ c.imageName = HashOneName => seg = HashOneSegment]_vars

C12_Witness ==
    /\ last.op = "toPngResolve"
    /\ imageName = HashOneName
    /\ last.download = <<HashOneSegment>>

\* The file name up to its last ".", or whole when it has none
UpToLastDot(name) ==
    LET dots == { i \in 1..Len(name) : name[i] = "." }
    IN  IF dots = {} THEN name
        ELSE SubSeq(name, 1, (CHOOSE i \in dots : \A j \in dots : j <= i) - 1)

\* The same, but whole also when nothing follows the last "." or a "/" does
UpToExtension(name) ==
    LET dots == { i \in 1..Len(name) : name[i] = "." }
        lastDot == CHOOSE i \in dots : \A j \in dots : j <= i
    IN  IF dots = {} THEN name
        ELSE IF lastDot = Len(name) THEN name
        ELSE IF \E j \in (lastDot + 1)..Len(name) : name[j] = "/" THEN name
        ELSE SubSeq(name, 1, lastDot - 1)

OrScreenshot(name) == IF name = << >> THEN ScreenshotName ELSE name

\* C13 as stated: a completed read publishes the file name with its last "."
\* and what follows it removed, "Screenshot" when that is empty, and the
\* display name is never empty.
C13_LastDotStripped ==
    [][(last'.op = "readerOnload" /\ Len(pendingReads) = 1) =>
         /\ imageName' = OrScreenshot(UpToLastDot(pendingReads[1].name))
         /\ imageName' # << >>]_vars

\* C13 amended: the last "." and what follows it are removed only when at least
\* one character follows that "." and none of them is "/"; otherwise the file
\* name is kept whole; "Screenshot" when the result is empty; the display name
\* is never empty, initially and after clear included.
C13_ExtensionStripped ==
    /\ [](imageName # << >>)
    /\ [][(last'.op = "readerOnload" /\ Len(pendingReads) = 1) =>
            imageName' = OrScreenshot(UpToExtension(pendingReads[1].name))]_vars
    /\ [][last'.op = "handleClearImage" => imageName' = ScreenshotName]_vars

C13_Witness ==
    /\ last.op = "readerOnload"
    /\ imageDataUrl # "null"
    /\ imageName = ScreenshotName
    /\ pendingReads = << >>

----------------------------------------------------------------------------
(* Input surface *)

\* C14: only files of the media types image/png, image/jpeg, image/webp and
\* image/svg+xml are taken in, from the dialog and from drag-and-drop: a file of
\* any other type starts no read and never becomes the loaded image.
C14_OnlyAcceptedTypes ==
    /\ \A i \in 1..Len(pendingReads) : pendingReads[i].type \in acceptedTypes
    /\ \A file \in IngestFiles :
          file.type \notin acceptedTypes => imageDataUrl # file.data

----------------------------------------------------------------------------
(* Renderer *)

\* C15: the renderer is either empty (placeholder, no image) or loaded; it
\* starts empty, becomes loaded only when a read completes, becomes empty only
\* on the clear action, and no settings update, preset, reset, export-scale
\* change or export step changes which of the two it is.
C15_TwoRendererStates ==
    /\ showPlaceholder
    /\ [](showPlaceholder \/ \E file \in ImageFiles : imageDataUrl = file.data)
    /\ [][/\ (showPlaceholder /\ ~showPlaceholder') => last'.op = "readerOnload"
          /\ (~showPlaceholder /\ showPlaceholder') => last'.op = "handleClearImage"
          /\ last'.op \in {"updateSetting", "selectGradientPreset", "selectSolidPreset",
                          "resetSettings", "setExportScale", "handleExport",
                          "toPngResolve", "toPngReject"} =>
               (showPlaceholder' <=> showPlaceholder)]_vars

C15_Witness ==
    /\ last.op = "selectSolidPreset"
    /\ ~showPlaceholder
    /\ isExporting
    /\ exportScale = 3

----------------------------------------------------------------------------
(* Export in progress *)

\* C16: isExporting is true exactly when at least one snapshot/encode is
\* pending, for any sequence of handleExport invocations.
C16_ExportingIffPending == isExporting <=> PendingSnapshots > 0

----------------------------------------------------------------------------
(* Overlapping reads *)

\* C17: when two files are ingested one after the other and no clear follows,
\* the image and display name left once both reads have completed are those
\* of the file chosen last, whatever the order of completion.  Stated on the
\* step that decides it: when the read that has just completed was started
\* after a read still in flight, the completion of that earlier read leaves
\* the image and display name of the later file in place.
C17_LatestFileWins ==
    [][(/\ last.op = "readerOnload"
        /\ last'.op = "readerOnload"
        /\ last'.position < last.position) =>
          /\ imageDataUrl' = imageDataUrl
          /\ imageName' = imageName]_vars

\* C18: after the clear action the session stays empty until an ingestion
\* started after that clear completes.  The reads in flight right after the
\* clear were all started before it, so a read completing as the next step
\* leaves the session empty.
C18_ClearedStaysEmpty ==
    [][(last.op = "handleClearImage" /\ last'.op = "readerOnload") =>
          /\ imageDataUrl' = "null"
          /\ imageName' = ScreenshotName]_vars

====
